---- MODULE Spec2Model ----
(***************************************************************************)
(* Model of the UIAutodev Bridge overlay panel (src/unnamed/part_000):     *)
(* the global click listener with its ignore-region filter, the selection  *)
(* extractor, the request builder of postSelection, the Send / Stop /      *)
(* Apply buttons, the bridge round trips and the refresh scheduler.        *)
(*                                                                         *)
(* Strings the code inspects character by character (rectangle strings,    *)
(* the values of the number inputs) are sequences of one-character         *)
(* strings, so that the regular expression BOUNDS_RE and parseInt are       *)
(* computed, not assumed.                                                  *)
(***************************************************************************)
EXTENDS Integers, Sequences, FiniteSets, TLC

\* ------------------------------------------------------------------ bounds
\* Requests in flight plus refresh-scheduler runs pending at one time: a
\* click that would start one more is not made while this many are
\* outstanding.  Responses and timer ticks are never held back.
MaxOutstanding == 2

\* ------------------------------------------------- character-level helpers
Digits == {"0", "1", "2", "3", "4", "5", "6", "7", "8", "9"}

IsDigit(c) == c \in Digits

DigitVal(c) ==
  CASE c = "0" -> 0 [] c = "1" -> 1 [] c = "2" -> 2 [] c = "3" -> 3
    [] c = "4" -> 4 [] c = "5" -> 5 [] c = "6" -> 6 [] c = "7" -> 7
    [] c = "8" -> 8 [] c = "9" -> 9

IsSpace(c) == c = " "

\* Index of the first position >= i of s that holds no digit (Len(s)+1 when
\* the digits run to the end): what the greedy \d+ consumes from i.
RECURSIVE SkipDigits(_, _)
SkipDigits(s, i) ==
  IF i <= Len(s) /\ IsDigit(s[i]) THEN SkipDigits(s, i + 1) ELSE i

\* One literal character of the pattern at position i; 0 means "no match".
Lit(s, i, c) == IF i # 0 /\ i <= Len(s) /\ s[i] = c THEN i + 1 ELSE 0

\* \d+ at position i; 0 means "no match".
DigitRun(s, i) ==
  IF i # 0 /\ i <= Len(s) /\ IsDigit(s[i]) THEN SkipDigits(s, i) ELSE 0

\* \[\d+,\d+\] at position i.
Pair(s, i) ==
  LET p1 == Lit(s, i, "[")
      p2 == DigitRun(s, p1)
      p3 == Lit(s, p2, ",")
      p4 == DigitRun(s, p3)
  IN Lit(s, p4, "]")

\* The pattern of BOUNDS_RE matched at position i of s: the position after
\* the match, or 0.
MatchAt(s, i) == LET p == Pair(s, i) IN Pair(s, p)

\* BOUNDS_RE carries no ^ and no $: test() and match() search every start.
MatchStarts(s) == {i \in 1..Len(s) : MatchAt(s, i) # 0}

Min(S) == CHOOSE x \in S : \A y \in S : x <= y

Max2(a, b) == IF a >= b THEN a ELSE b

\* BOUNDS_RE.test(s)
BOUNDS_RE_test(s) == MatchStarts(s) # {}

\* s.match(BOUNDS_RE)[0]: the text of the leftmost match (caller checks that
\* a match exists).
BOUNDS_RE_match0(s) ==
  LET i == Min(MatchStarts(s)) IN SubSeq(s, i, MatchAt(s, i) - 1)

\* String.prototype.trim on the blank character.
RECURSIVE TrimLeft(_)
TrimLeft(s) ==
  IF s # << >> /\ IsSpace(Head(s)) THEN TrimLeft(Tail(s)) ELSE s

RECURSIVE TrimRight(_)
TrimRight(s) ==
  IF s # << >> /\ IsSpace(s[Len(s)])
    THEN TrimRight(SubSeq(s, 1, Len(s) - 1)) ELSE s

Trim(s) == TrimRight(TrimLeft(s))

\* parseInt(s, 10): leading blanks, an optional sign, then the longest run
\* of digits; NaN when there is no digit.  Anything after the digits is
\* dropped.
RECURSIVE DigitsValue(_, _, _, _)
DigitsValue(s, i, j, acc) ==
  IF i >= j THEN acc ELSE DigitsValue(s, i + 1, j, acc * 10 + DigitVal(s[i]))

NaN == [nan |-> TRUE, n |-> 0]

parseInt(str) ==
  LET s == TrimLeft(str)
      neg == s # << >> /\ s[1] = "-"
      signed == s # << >> /\ s[1] \in {"-", "+"}
      from == IF signed THEN 2 ELSE 1
      to == DigitRun(s, from)
  IN IF to = 0 THEN NaN
     ELSE [nan |-> FALSE,
           n |-> IF neg THEN 0 - DigitsValue(s, from, to, 0)
                 ELSE DigitsValue(s, from, to, 0)]

\* parseInt(v || dflt, 10) || fallback: an empty field takes the default
\* string, and a NaN or zero result takes the fallback number.
ParseOr(v, dflt, fallback) ==
  LET p == parseInt(IF v = << >> THEN dflt ELSE v)
  IN IF p.nan \/ p.n = 0 THEN fallback ELSE p.n

\* ------------------------------------------------------------- test data
\* "[10,20][110,70]"
R1 == <<"[", "1", "0", ",", "2", "0", "]", "[", "1", "1", "0", ",", "7", "0", "]">>
\* "[5,6][7,8]"
R2 == <<"[", "5", ",", "6", "]", "[", "7", ",", "8", "]">>
\* "x[5,6][7,8]": a rectangle with a character in front of it
Prefixed == <<"x">> \o R2
\* "[5,6][7,8]!": a rectangle with a character after it
Suffixed == R2 \o <<"!">>
\* " [5,6][7,8] ": a rectangle between blanks
Padded == <<" ">> \o R2 \o <<" ">>
\* "[5,6][7,8": the last bracket is missing
Broken == SubSeq(R2, 1, Len(R2) - 1)
\* innerText of an attribute table: "b=[10,20][110,70];"
TableText == <<"b", "=">> \o R1 \o <<";">>
\* innerText of a panel without any rectangle: "id"
PlainText == <<"i", "d">>

S(n) ==
  CASE n = 600 -> <<"6", "0", "0">> [] n = 400 -> <<"4", "0", "0">>
    [] n = 500 -> <<"5", "0", "0">> [] n = 300 -> <<"3", "0", "0">>
    [] n = 50 -> <<"5", "0">> [] n = 75 -> <<"7", "5">>
    [] n = 0 -> <<"0">> [] n = 7 -> <<"7">> [] n = 3 -> <<"3">>
    [] n = 2 -> <<"2">>
    [] n = -5 -> <<"-", "5">> [] n = -3 -> <<"-", "3">>
    [] n = -1 -> <<"-", "1">> [] n = -300 -> <<"-", "3", "0", "0">>

Empty == << >>

\* The values the operator puts into the fields.
Actions == {"short-click", "long-click", "input", "swipe", "back"}
CapModes == {"mid", "post"}
Directions == {"custom", "up", "down", "left", "right"}
DirValues == {"custom", "up", "left"}
DurValues == {S(600), S(0), S(-5)}
MidDelayValues == {S(50), S(0), S(75), S(-5)}
WaitValues == {S(400), S(0), S(-5)}
TextValues == {"", "hi"}
DxValues == {S(0), S(7)}
DyValues == {S(0), S(-3)}
DistValues == {S(0), S(300), S(-300)}
BdValues == {Empty, R1, Suffixed, Padded, Broken}
RtValues == {S(3), S(0), S(2), S(-1)}
RiValues == {S(500), S(0)}

\* A JavaScript value that is a string, or undefined.
Str(s) == [t |-> "string", s |-> s]
Undefined == [t |-> "undefined", s |-> Empty]
NoNode == [present |-> FALSE, bounds |-> Undefined, attrBounds |-> Undefined]
Node(b1, b2) == [present |-> TRUE, bounds |-> b1, attrBounds |-> b2]

\* What the host page exposes while one event is handled: the selected node
\* (window._selectedNode || store.state.selectedNode), the innerText of the
\* candidate regions in document order, and whether a refresh button is in
\* the document.
Host(n, r, b) == [node |-> n, regions |-> r, refreshBtn |-> b]
\* A page with a selected node and a refresh button, and the same page
\* without the button.
HFull == Host(Node(Str(R1), Undefined), <<TableText>>, TRUE)
HNoButton == Host(Node(Str(R1), Undefined), <<TableText>>, FALSE)
Hosts ==
  { Host(NoNode, <<PlainText>>, TRUE),
    HFull,
    Host(Node(Undefined, Str(R1)), << >>, FALSE),
    Host(Node(Str(Prefixed), Undefined), << >>, TRUE),
    Host(Node(Str(Broken), Undefined), <<PlainText, TableText>>, TRUE),
    Host(Node(Str(Broken), Undefined), <<PlainText>>, FALSE) }

\* Elements a click can have as its target.
PanelTargets == {"panel", "auto", "send", "stop", "applyR"}
Targets == PanelTargets \cup {"refresh", "ignored", "page"}

\* ------------------------------------------------------------------ state
VARIABLES
  act, dur, capMode, midDelay, wait, text, dx, dy, dir, dist, bd, rt, ri,
  auto, status,
  REFRESH_TIMES, REFRESH_INTERVAL,
  hidden, disabled, cfg,
  pending, stopPending, runs,
  out

fields == <<act, dur, capMode, midDelay, wait, text, dx, dy, dir, dist, rt, ri>>
display == <<hidden, disabled>>
net == <<pending, stopPending, runs>>
vars == <<fields, bd, auto, status, REFRESH_TIMES, REFRESH_INTERVAL,
          display, cfg, net, out>>

\* ------------------------------------------------------------ status line
\* $status.textContent, as a tuple: the message, then the values it embeds.
StReady == <<"ready">>                      \* line 421
StSending == <<"sending">>                  \* line 304
StMissingBounds == <<"missing valid Bounds">>     \* line 328
StNotFound == <<"no valid Bounds found, select a node first">>  \* line 367
StFillBounds == <<"fill in valid Bounds">>  \* line 380
StOK(elem) == <<"OK", elem>>                \* line 340
StFailed(why) == <<"failed", why>>          \* line 345
StException(e) == <<"exception", e>>        \* line 349
StApplied(t, i) == <<"refresh parameters applied", ToString(t), ToString(i)>>
StStopped(file) == <<"stopped, final screenshot", file>>   \* line 395
StStopFailed(why) == <<"stop failed", why>> \* line 399
StStopException(e) == <<"stop exception", e>>   \* line 402

\* ---------------------------------------------------- selection extractor
\* b1 || b2 || '' of extractBounds: the first truthy one (a non-empty
\* string), else the empty string.
Truthy(v) == v.t = "string" /\ v.s # Empty

NodeBounds(n) ==
  IF Truthy(n.bounds) THEN n.bounds
  ELSE IF Truthy(n.attrBounds) THEN n.attrBounds ELSE Str(Empty)

\* The loop over the candidate regions: m[0] of the first region whose
\* innerText has a match; undefined when none has.
RECURSIVE ScanRegions(_)
ScanRegions(rs) ==
  IF rs = << >> THEN Undefined
  ELSE IF BOUNDS_RE_test(Head(rs)) THEN Str(BOUNDS_RE_match0(Head(rs)))
  ELSE ScanRegions(Tail(rs))

extractBounds(h) ==
  IF h.node.present /\ NodeBounds(h.node).t = "string"
       /\ BOUNDS_RE_test(NodeBounds(h.node).s)
    THEN NodeBounds(h.node)
    ELSE ScanRegions(h.regions)

\* ------------------------------------------------------- request builder
\* Mutant of BodyBase: the duration is sent with the timed actions only.
BodyBase_TimedOnly ==
  IF act \in {"long-click", "swipe"}
    THEN [action |-> act,
          durationMs |-> Max2(1, ParseOr(dur, S(600), 600)),
          tap |-> TRUE]
    ELSE [action |-> act, tap |-> TRUE]

\* The object literal and the assignments of postSelection, lines 306-323,
\* before the rectangle is looked at.
BodyBase ==
  [action |-> act,
   durationMs |-> Max2(1, ParseOr(dur, S(600), 600)),
   tap |-> TRUE]

\* Mutant of BodyCapture: the wait is sent in mid mode too.
BodyCapture_WaitAlways ==
  IF capMode = "mid"
    THEN [midCapture |-> TRUE,
          midDelayMs |-> Max2(0, ParseOr(midDelay, S(50), 50)),
          waitAfterMs |-> Max2(0, ParseOr(wait, S(400), 400))]
    ELSE [waitAfterMs |-> Max2(0, ParseOr(wait, S(400), 400))]

BodyCapture ==
  IF capMode = "mid"
    THEN [midCapture |-> TRUE,
          midDelayMs |-> Max2(0, ParseOr(midDelay, S(50), 50))]
    ELSE [waitAfterMs |-> Max2(0, ParseOr(wait, S(400), 400))]

BodyInput == [text |-> text]

\* Mutant of BodySwipe: dx and dy are left out when a direction is given.
BodySwipe_DirectionOnly ==
  IF dir = "custom"
    THEN [dx |-> ParseOr(dx, S(0), 0),
          dy |-> ParseOr(dy, S(0), 0),
          direction |-> dir,
          distance |-> ParseOr(dist, S(0), 0)]
    ELSE [direction |-> dir, distance |-> ParseOr(dist, S(0), 0)]

BodySwipe ==
  [dx |-> ParseOr(dx, S(0), 0),
   dy |-> ParseOr(dy, S(0), 0),
   direction |-> dir,
   distance |-> ParseOr(dist, S(0), 0)]

\* Mutant of BodyFields: an empty text is not sent.
BodyFields_TextIfAny ==
  LET b1 == BodyBase @@ BodyCapture
      b2 == IF act = "input" /\ text # "" THEN b1 @@ BodyInput ELSE b1
  IN IF act = "swipe" THEN b2 @@ BodySwipe ELSE b2

BodyFields ==
  LET b1 == BodyBase @@ BodyCapture
      b2 == IF act = "input" THEN b1 @@ BodyInput ELSE b1
  IN IF act = "swipe" THEN b2 @@ BodySwipe ELSE b2

\* Lines 324-331: does the rectangle handed to postSelection pass?
BoundsAccepted(bounds) == bounds # Empty /\ BOUNDS_RE_test(bounds)

\* Mutant of Body: the rectangle is sent with every action.
Body_BoundsAlways(bounds) == BodyFields @@ [bounds |-> bounds]

\* The body that is posted; the caller has checked BoundsAccepted for the
\* actions other than back.
Body(bounds) ==
  IF act # "back" THEN BodyFields @@ [bounds |-> bounds] ELSE BodyFields

\* postSelection up to its first await, as a change of the mutable part m of
\* the panel: [status, bd, auto, rtimes, rinterval, fetches, stops].
postSelection(m, bounds) ==
  IF act # "back" /\ ~BoundsAccepted(bounds)
    THEN [m EXCEPT !.status = StMissingBounds]
    ELSE [m EXCEPT !.status = StSending,
                   !.fetches = Append(@, Body(bounds))]

\* ------------------------------------------------- click listener, filter
\* findRefreshButton(): the button, or null.
findRefreshButton(h) == h.refreshBtn

\* Mutant of shouldIgnoreClick: rule 1 (the panel) is missing.
shouldIgnoreClick_NoPanelRule(t, h) ==
  \/ findRefreshButton(h) /\ t = "refresh"
  \/ t = "ignored"

\* Mutant of shouldIgnoreClick: rule 2 (the refresh button) is missing.
shouldIgnoreClick_NoRefreshRule(t, h) ==
  \/ t \in PanelTargets
  \/ t = "ignored"

\* Rules 1-3 of shouldIgnoreClick for a click whose target is t.
shouldIgnoreClick(t, h) ==
  \/ t \in PanelTargets
  \/ findRefreshButton(h) /\ t = "refresh"
  \/ t = "ignored"

\* Mutant of sendCurrentSelection: the check of what extractBounds() found
\* is left to postSelection.
sendCurrentSelection_NoCheck(m, h) ==
  IF ~m.auto THEN m
  ELSE IF act = "back" THEN postSelection(m, Empty)
  ELSE LET b == extractBounds(h)
       IN postSelection([m EXCEPT !.bd = b.s], b.s)

\* Mutant of sendCurrentSelection: the auto-send box is not looked at.
sendCurrentSelection_IgnoreAuto(m, h) ==
  IF act = "back" THEN postSelection(m, Empty)
  ELSE LET b == extractBounds(h)
       IN IF b.t # "string" \/ b.s = Empty \/ ~BOUNDS_RE_test(b.s)
            THEN [m EXCEPT !.status = StNotFound]
            ELSE postSelection([m EXCEPT !.bd = b.s], b.s)

\* Mutant of sendCurrentSelection: a click is dropped while the status line
\* still shows a request being sent.
sendCurrentSelection_SkipWhileSending(m, h) ==
  IF ~m.auto \/ m.status = StSending THEN m
  ELSE IF act = "back" THEN postSelection(m, Empty)
  ELSE LET b == extractBounds(h)
       IN IF b.t # "string" \/ b.s = Empty \/ ~BOUNDS_RE_test(b.s)
            THEN [m EXCEPT !.status = StNotFound]
            ELSE postSelection([m EXCEPT !.bd = b.s], b.s)

sendCurrentSelection(m, h) ==
  IF ~m.auto THEN m
  ELSE IF act = "back" THEN postSelection(m, Empty)
  ELSE LET b == extractBounds(h)
       IN IF b.t # "string" \/ b.s = Empty \/ ~BOUNDS_RE_test(b.s)
            THEN [m EXCEPT !.status = StNotFound]
            ELSE postSelection([m EXCEPT !.bd = b.s], b.s)

\* Mutant of clickListener: the trust flag of the event is not looked at.
clickListener_NoTrustCheck(m, t, trusted, h) ==
  IF shouldIgnoreClick(t, h) THEN m ELSE sendCurrentSelection(m, h)

\* The capture-phase listener on document, lines 111-119.
clickListener(m, t, trusted, h) ==
  IF shouldIgnoreClick(t, h) THEN m
  ELSE IF ~trusted THEN m
  ELSE sendCurrentSelection(m, h)

\* ------------------------------------------------------- panel buttons
sendOnclick(m) ==
  LET b == Trim(m.bd)
  IN IF act # "back" /\ ~BOUNDS_RE_test(b)
       THEN [m EXCEPT !.status = StFillBounds]
       ELSE postSelection(m, b)

\* Mutant of stopOnclick: the auto-send box is left as it is.
stopOnclick_KeepsAuto(m) == [m EXCEPT !.stops = @ + 1]

\* $stop.onclick up to its await: auto-send off, one POST to final_screenshot.
stopOnclick(m) == [m EXCEPT !.auto = FALSE, !.stops = @ + 1]

applyROnclick(m) ==
  LET t == Max2(0, ParseOr(rt, S(3), 3))
      i == Max2(0, ParseOr(ri, S(500), 500))
  IN [m EXCEPT !.rtimes = t, !.rinterval = i, !.status = StApplied(t, i)]

\* The checkbox toggles when it is clicked.
autoOnclick(m) == [m EXCEPT !.auto = ~@]

\* What the target's own handler does after the capture-phase listener.
targetHandler(m, t) ==
  CASE t = "send" -> sendOnclick(m)
    [] t = "stop" -> stopOnclick(m)
    [] t = "applyR" -> applyROnclick(m)
    [] t = "auto" -> autoOnclick(m)
    [] OTHER -> m

\* One click event, dispatched: the listener on document first, then the
\* handler of the target.
dispatchClick(m, t, trusted, h) ==
  targetHandler(clickListener(m, t, trusted, h), t)

\* ------------------------------------------------------ field visibility
\* Mutant of ExtraHidden: the duration field is shown for every action.
ExtraHidden_DurationShown(a) ==
  {"text", "dx", "dy", "dir", "dist"}
     \ (IF a = "input" THEN {"text"}
        ELSE IF a = "swipe" THEN {"dx", "dy", "dir", "dist"} ELSE {})

\* updateExtraFields(): the ids with display:none among those it manages.
ExtraHidden(a) ==
  ({"text", "dx", "dy", "dir", "dist"}
     \ (IF a = "input" THEN {"text"}
        ELSE IF a = "swipe" THEN {"dx", "dy", "dir", "dist"} ELSE {}))
  \cup (IF a \in {"long-click", "swipe"} THEN {} ELSE {"dur"})

ExtraDisabled(a) == IF a = "back" THEN {"xp", "bd"} ELSE {}

\* updateCaptureUI()
CaptureHidden(mode) == IF mode = "mid" THEN {"wait"} ELSE {"midDelay"}

\* saveCfg(delta): Object.assign({}, cfg, delta) written back.
saveCfg(c, key, value) == [k \in DOMAIN c \cup {key} |->
                             IF k = key THEN value ELSE c[k]]

\* -------------------------------------------------------- bridge answers
\* What one fetch ends with: a transport fault, or an HTTP response with
\* resp.ok, resp.status and the parsed body (an unparsable body parses to {}
\* through .catch(() => ({}))); error = "" stands for "no error field".
Fault == [fault |-> TRUE, httpOk |-> FALSE, code |-> "0",
          ok |-> FALSE, error |-> "", id |-> ""]
Http(httpOk, code, ok, error, id) ==
  [fault |-> FALSE, httpOk |-> httpOk, code |-> code,
   ok |-> ok, error |-> error, id |-> id]
Responses ==
  { Fault,
    Http(TRUE, "200", TRUE, "", "elem_3"),
    Http(TRUE, "200", FALSE, "xpath not found", ""),
    Http(TRUE, "200", FALSE, "", ""),
    Http(FALSE, "500", FALSE, "", ""),
    Http(FALSE, "500", TRUE, "", "elem_3") }

\* Mutant of IsSuccess: the ok of the body is not looked at.
IsSuccess_StatusOnly(r) == ~r.fault /\ r.httpOk

\* resp.ok && data && data.ok
IsSuccess(r) == ~r.fault /\ r.httpOk /\ r.ok

\* Mutant of FailureText: the error text of the body is not shown.
FailureText_CodeOnly(r) == r.code

\* data?.error || resp.status
FailureText(r) == IF r.error # "" THEN r.error ELSE r.code

\* ------------------------------------------------------------------ init
REFRESH_TIMES_0 == 1
REFRESH_INTERVAL_0 == 500

\* What the last step put out, for the properties to read: the bodies it
\* posted to the endpoint, the number of POSTs to final_screenshot, of
\* btn.click() calls on the refresh button and of scheduler runs started.
Out(fetches, stops, synth, started) ==
  [fetches |-> fetches, stops |-> stops, synth |-> synth, started |-> started]

Nothing == Out(<< >>, 0, 0, 0)

EmptyCfg == [k \in {} |-> ""]

\* The panel as the script leaves it on a first load (nothing stored yet).
\* The host page is in any of its states when extractBounds() runs at
\* line 419.
Init ==
  /\ act = "short-click" /\ dur = S(600)
  /\ capMode = "post" /\ midDelay = S(50) /\ wait = S(400)
  /\ text = "" /\ dx = S(0) /\ dy = S(0) /\ dir = "custom" /\ dist = S(0)
  /\ rt = S(3) /\ ri = S(500)
  /\ auto = TRUE
  /\ status = StReady
  /\ REFRESH_TIMES = REFRESH_TIMES_0
  /\ REFRESH_INTERVAL = REFRESH_INTERVAL_0
  /\ hidden = ExtraHidden("short-click") \cup CaptureHidden("post")
  /\ disabled = ExtraDisabled("short-click")
  /\ cfg = EmptyCfg
  /\ \E h \in Hosts :
       bd = IF Truthy(extractBounds(h)) THEN extractBounds(h).s ELSE Empty
  /\ pending = 0 /\ stopPending = 0 /\ runs = << >>
  /\ out = Nothing

\* ----------------------------------------------------------- field edits
\* The operator can edit a field that is shown and enabled.
Editable(id) == id \notin hidden /\ id \notin disabled

Edited == /\ out' = Nothing
          /\ UNCHANGED <<bd, auto, status, REFRESH_TIMES, REFRESH_INTERVAL, net>>

\* change on $act: updateExtraFields()
SetAct(a) ==
  /\ a # act
  /\ act' = a
  /\ hidden' = (hidden \cap {"midDelay", "wait"}) \cup ExtraHidden(a)
  /\ disabled' = ExtraDisabled(a)
  /\ UNCHANGED <<dur, capMode, midDelay, wait, text, dx, dy, dir, dist, rt, ri, cfg>>
  /\ Edited

\* change on $capMode: updateCaptureUI() and saveCfg({capMode})
SetCapMode(mode) ==
  /\ mode # capMode
  /\ capMode' = mode
  /\ hidden' = (hidden \ {"midDelay", "wait"}) \cup CaptureHidden(mode)
  /\ cfg' = saveCfg(cfg, "capMode", mode)
  /\ UNCHANGED <<act, dur, midDelay, wait, text, dx, dy, dir, dist, rt, ri, disabled>>
  /\ Edited

\* change on $wait: saveCfg({waitAfterMs})
SetWait(v) ==
  /\ Editable("wait") /\ v # wait
  /\ wait' = v
  /\ cfg' = saveCfg(cfg, "waitAfterMs", ParseOr(v, S(400), 400))
  /\ UNCHANGED <<act, dur, capMode, midDelay, text, dx, dy, dir, dist, rt, ri, display>>
  /\ Edited

\* change on $midDelay: saveCfg({midDelayMs})
SetMidDelay(v) ==
  /\ Editable("midDelay") /\ v # midDelay
  /\ midDelay' = v
  /\ cfg' = saveCfg(cfg, "midDelayMs", Max2(0, ParseOr(v, S(50), 50)))
  /\ UNCHANGED <<act, dur, capMode, wait, text, dx, dy, dir, dist, rt, ri, display>>
  /\ Edited

\* The fields without a change handler.
SetDur(v) ==
  /\ Editable("dur") /\ v # dur /\ dur' = v
  /\ UNCHANGED <<act, capMode, midDelay, wait, text, dx, dy, dir, dist, rt, ri, display, cfg>>
  /\ Edited

SetText(v) ==
  /\ Editable("text") /\ v # text /\ text' = v
  /\ UNCHANGED <<act, dur, capMode, midDelay, wait, dx, dy, dir, dist, rt, ri, display, cfg>>
  /\ Edited

SetDx(v) ==
  /\ Editable("dx") /\ v # dx /\ dx' = v
  /\ UNCHANGED <<act, dur, capMode, midDelay, wait, text, dy, dir, dist, rt, ri, display, cfg>>
  /\ Edited

SetDy(v) ==
  /\ Editable("dy") /\ v # dy /\ dy' = v
  /\ UNCHANGED <<act, dur, capMode, midDelay, wait, text, dx, dir, dist, rt, ri, display, cfg>>
  /\ Edited

SetDir(v) ==
  /\ Editable("dir") /\ v # dir /\ dir' = v
  /\ UNCHANGED <<act, dur, capMode, midDelay, wait, text, dx, dy, dist, rt, ri, display, cfg>>
  /\ Edited

SetDist(v) ==
  /\ Editable("dist") /\ v # dist /\ dist' = v
  /\ UNCHANGED <<act, dur, capMode, midDelay, wait, text, dx, dy, dir, rt, ri, display, cfg>>
  /\ Edited

SetRt(v) ==
  /\ Editable("rt") /\ v # rt /\ rt' = v
  /\ UNCHANGED <<act, dur, capMode, midDelay, wait, text, dx, dy, dir, dist, ri, display, cfg>>
  /\ Edited

SetRi(v) ==
  /\ Editable("ri") /\ v # ri /\ ri' = v
  /\ UNCHANGED <<act, dur, capMode, midDelay, wait, text, dx, dy, dir, dist, rt, display, cfg>>
  /\ Edited

\* Typing into the Bounds field.
SetBd(v) ==
  /\ Editable("bd") /\ v # bd /\ bd' = v
  /\ out' = Nothing
  /\ UNCHANGED <<fields, auto, status, REFRESH_TIMES, REFRESH_INTERVAL,
                 display, cfg, net>>

\* ----------------------------------------------------------------- clicks
Mutable ==
  [status |-> status, bd |-> bd, auto |-> auto,
   rtimes |-> REFRESH_TIMES, rinterval |-> REFRESH_INTERVAL,
   fetches |-> << >>, stops |-> 0]

Commit(m) ==
  /\ status' = m.status /\ bd' = m.bd /\ auto' = m.auto
  /\ REFRESH_TIMES' = m.rtimes /\ REFRESH_INTERVAL' = m.rinterval
  /\ pending' = pending + Len(m.fetches)
  /\ stopPending' = stopPending + m.stops

Outstanding == pending + stopPending + Len(runs)

\* One click event on target t while the host page is in state h: by the
\* operator (trusted) or by a script of the host page (not trusted).
Click(t, trusted, h) ==
  /\ t = "refresh" => h.refreshBtn
  /\ \E m \in {dispatchClick(Mutable, t, trusted, h)} :
       /\ Outstanding + Len(m.fetches) + m.stops <= MaxOutstanding
       /\ Commit(m)
       /\ out' = Out(m.fetches, m.stops, 0, 0)
  /\ UNCHANGED <<fields, display, cfg, runs>>

\* --------------------------------------------------------- bridge answers
\* scheduleRefreshClicks(): the run takes the values of REFRESH_TIMES and
\* REFRESH_INTERVAL as they are when it starts.
NewRun == [count |-> 0, times |-> REFRESH_TIMES, delay |-> REFRESH_INTERVAL]

\* Mutant of Respond: a fetch that rejects leaves the status line alone.
Respond_FaultKeepsStatus(r) ==
  /\ pending > 0
  /\ pending' = pending - 1
  /\ status' = IF r.fault THEN status
               ELSE IF IsSuccess(r) THEN StOK(r.id)
               ELSE StFailed(FailureText(r))
  /\ runs' = IF IsSuccess(r) THEN Append(runs, NewRun) ELSE runs
  /\ out' = Out(<< >>, 0, 0, IF IsSuccess(r) THEN 1 ELSE 0)
  /\ UNCHANGED <<fields, bd, auto, REFRESH_TIMES, REFRESH_INTERVAL,
                 display, cfg, stopPending>>

\* The rest of postSelection once its fetch settles, lines 337-351.
Respond(r) ==
  /\ pending > 0
  /\ pending' = pending - 1
  /\ status' = IF r.fault THEN StException("TypeError: Failed to fetch")
               ELSE IF IsSuccess(r) THEN StOK(r.id)
               ELSE StFailed(FailureText(r))
  /\ runs' = IF IsSuccess(r) THEN Append(runs, NewRun) ELSE runs
  /\ out' = Out(<< >>, 0, 0, IF IsSuccess(r) THEN 1 ELSE 0)
  /\ UNCHANGED <<fields, bd, auto, REFRESH_TIMES, REFRESH_INTERVAL,
                 display, cfg, stopPending>>

\* The rest of $stop.onclick once its fetch settles, lines 393-403.
StopRespond(r) ==
  /\ stopPending > 0
  /\ stopPending' = stopPending - 1
  /\ status' = IF r.fault THEN StStopException("TypeError: Failed to fetch")
               ELSE IF IsSuccess(r) THEN StStopped(r.id)
               ELSE StStopFailed(FailureText(r))
  /\ runs' = IF IsSuccess(r) THEN Append(runs, NewRun) ELSE runs
  /\ out' = Out(<< >>, 0, 0, IF IsSuccess(r) THEN 1 ELSE 0)
  /\ UNCHANGED <<fields, bd, auto, REFRESH_TIMES, REFRESH_INTERVAL,
                 display, cfg, pending>>

\* ------------------------------------------------------ refresh scheduler
RemoveAt(q, i) == SubSeq(q, 1, i - 1) \o SubSeq(q, i + 1, Len(q))

\* Mutant of Tick: a tick that finds no refresh button ends the run.
Tick_StopWhenMissing(i, h) ==
  /\ i \in 1..Len(runs)
  /\ \E m \in {IF findRefreshButton(h)
                  THEN dispatchClick(Mutable, "refresh", FALSE, h)
                  ELSE Mutable} :
       /\ Commit(m)
       /\ out' = Out(m.fetches, m.stops,
                      IF findRefreshButton(h) THEN 1 ELSE 0, 0)
  /\ runs' = IF findRefreshButton(h) /\ runs[i].count + 1 < runs[i].times
               THEN [runs EXCEPT ![i].count = @ + 1]
               ELSE RemoveAt(runs, i)
  /\ UNCHANGED <<fields, display, cfg>>

\* Mutant of Tick: the count is compared with the global REFRESH_TIMES, not
\* with the times the run was started with.
Tick_SharedTimes(i, h) ==
  /\ i \in 1..Len(runs)
  /\ \E m \in {IF findRefreshButton(h)
                  THEN dispatchClick(Mutable, "refresh", FALSE, h)
                  ELSE Mutable} :
       /\ Commit(m)
       /\ out' = Out(m.fetches, m.stops,
                      IF findRefreshButton(h) THEN 1 ELSE 0, 0)
  /\ runs' = IF runs[i].count + 1 < REFRESH_TIMES
               THEN [runs EXCEPT ![i].count = @ + 1]
               ELSE RemoveAt(runs, i)
  /\ UNCHANGED <<fields, display, cfg>>

\* clickOnce of run i, with the host page in state h: btn.click() dispatches
\* a click that is not trusted, the count goes up, and the timer is set
\* again while count < times.
Tick(i, h) ==
  /\ i \in 1..Len(runs)
  /\ \E m \in {IF findRefreshButton(h)
                  THEN dispatchClick(Mutable, "refresh", FALSE, h)
                  ELSE Mutable} :
       /\ Commit(m)
       /\ out' = Out(m.fetches, m.stops,
                      IF findRefreshButton(h) THEN 1 ELSE 0, 0)
  /\ runs' = IF runs[i].count + 1 < runs[i].times
               THEN [runs EXCEPT ![i].count = @ + 1]
               ELSE RemoveAt(runs, i)
  /\ UNCHANGED <<fields, display, cfg>>

\* ------------------------------------------------------------------ next
\* The fields that differ from what the panel is built with, by group.
TouchedGroups ==
  (IF dur # S(600) THEN {"duration"} ELSE {})
  \cup (IF capMode # "post" \/ midDelay # S(50) \/ wait # S(400)
             \/ cfg # EmptyCfg
          THEN {"capture"} ELSE {})
  \cup (IF bd \notin {Empty, R1, Prefixed} THEN {"bounds"} ELSE {})
  \cup (IF text # "" THEN {"text"} ELSE {})
  \cup (IF dx # S(0) \/ dy # S(0) \/ dir # "custom" \/ dist # S(0)
          THEN {"swipe"} ELSE {})
  \cup (IF rt # S(3) \/ ri # S(500) THEN {"refresh"} ELSE {})

\* The operator works on one group of parameter fields at a time, and puts
\* a group back as it was before turning to another.
OneGroup == \A g1, g2 \in TouchedGroups : g1 = g2

\* The operator's click on the page, in every state of the host page.
PageClick == \E h \in Hosts : Click("page", TRUE, h)

\* The operator's click on the Send button.
SendClick == Click("send", TRUE, HFull)

\* Every other click, on a page with a selected node and a refresh button:
\* the operator's on the other targets, and those of scripts (not trusted)
\* on every target.
OtherClick ==
  \E t \in Targets, trusted \in BOOLEAN :
    /\ trusted => t \notin {"page", "send"}
    /\ Click(t, trusted, HFull)

ParameterEdit ==
  \/ \E v \in CapModes : SetCapMode(v)
  \/ \E v \in WaitValues : SetWait(v)
  \/ \E v \in MidDelayValues : SetMidDelay(v)
  \/ \E v \in DurValues : SetDur(v)
  \/ \E v \in TextValues : SetText(v)
  \/ \E v \in DxValues : SetDx(v)
  \/ \E v \in DyValues : SetDy(v)
  \/ \E v \in DirValues : SetDir(v)
  \/ \E v \in DistValues : SetDist(v)

\* The request builder: every parameter field is edited, one group at a
\* time, and the bridge is slow to answer.
NextBuild ==
  \/ \E a \in Actions : SetAct(a)
  \/ (\E v \in BdValues : SetBd(v)) /\ OneGroup'
  \/ ParameterEdit /\ OneGroup'
  \/ PageClick
  \/ SendClick

SpecBuild == Init /\ [][NextBuild]_vars

\* The controller: clicks, bridge answers and scheduler ticks with the
\* parameter fields as built.
Next ==
  \/ \E a \in {"short-click", "input", "back"} : SetAct(a)
  \/ SetBd(Empty)
  \/ PageClick
  \/ SendClick
  \/ OtherClick
  \/ \E r \in Responses : Respond(r)
  \/ \E r \in Responses : StopRespond(r)
  \/ \E i \in 1..MaxOutstanding, h \in {HFull, HNoButton} : Tick(i, h)

Spec == Init /\ [][Next]_vars

\* ---------------------------------------------------------------- reload
\* Lines 146-153: the stored blob c put over the fields as the panel's HTML
\* builds them (capture mode post, mid delay 50, wait 400); String(n) of a
\* stored number is S(n).
restoreCfg(c) ==
  [capMode |-> IF "capMode" \in DOMAIN c THEN c.capMode ELSE "post",
   midDelay |-> IF "midDelayMs" \in DOMAIN c THEN S(c.midDelayMs) ELSE S(50),
   wait |-> IF "waitAfterMs" \in DOMAIN c THEN S(c.waitAfterMs) ELSE S(400)]

\* What a load of the script puts out: the panel, appended to the document
\* (line 91).
Loaded ==
  [fetches |-> << >>, stops |-> 0, synth |-> 0, started |-> 0,
   panel |-> TRUE]

\* The page is loaded again and the script runs afresh, with the host page
\* in state h: the fields are built, the stored blob is put over them, and
\* updateExtraFields() and updateCaptureUI() run; localStorage is kept, and
\* what the page before had in flight is gone with it.
Reload(h) ==
  /\ act' = "short-click" /\ dur' = S(600)
  /\ \E r \in {restoreCfg(cfg)} :
       /\ capMode' = r.capMode /\ midDelay' = r.midDelay /\ wait' = r.wait
       /\ hidden' = ExtraHidden("short-click") \cup CaptureHidden(r.capMode)
  /\ text' = "" /\ dx' = S(0) /\ dy' = S(0) /\ dir' = "custom"
  /\ dist' = S(0) /\ rt' = S(3) /\ ri' = S(500)
  /\ auto' = TRUE
  /\ status' = StReady
  /\ REFRESH_TIMES' = REFRESH_TIMES_0
  /\ REFRESH_INTERVAL' = REFRESH_INTERVAL_0
  /\ disabled' = ExtraDisabled("short-click")
  /\ bd' = IF Truthy(extractBounds(h)) THEN extractBounds(h).s ELSE Empty
  /\ pending' = 0 /\ stopPending' = 0 /\ runs' = << >>
  /\ out' = Loaded
  /\ UNCHANGED cfg

\* The configuration store: the action and the capture-timing fields are
\* edited, and the page is loaded again, with a node selected.
NextConfig ==
  \/ \E a \in Actions : SetAct(a)
  \/ \E v \in CapModes : SetCapMode(v)
  \/ \E v \in WaitValues : SetWait(v)
  \/ \E v \in MidDelayValues : SetMidDelay(v)
  \/ Reload(HFull)

SpecConfig == Init /\ [][NextConfig]_vars

\* The controller with every fetch settling in the end: a request in flight
\* is answered or rejected after finitely many steps.
SpecLive ==
  /\ Init /\ [][Next]_vars
  /\ WF_vars(\E r \in Responses : Respond(r))
  /\ WF_vars(\E r \in Responses : StopRespond(r))

\* The refresh scheduler: the operator types refresh parameters and applies
\* them, clicks on the page with a node selected, the bridge answers with a
\* Success, and the timers of the runs fire in any order, on a
\* page with or without a refresh button.
NextSched ==
  \/ \E v \in {S(3), S(2), S(-1)} : SetRt(v)
  \/ \E v \in {S(500), S(300)} : SetRi(v)
  \/ Click("applyR", TRUE, HFull)
  \/ Click("page", TRUE, HFull)
  \/ Respond(Http(TRUE, "200", TRUE, "", "elem_3"))
  \/ \E i \in 1..MaxOutstanding, h \in {HFull, HNoButton} : Tick(i, h)

SpecSched == Init /\ [][NextSched]_vars

\* ============================================================ properties
\* The bodies posted to the endpoint by the last step.
Posted == {out.fetches[i] : i \in DOMAIN out.fetches}

\* The whole of s is [<uint>,<uint>][<uint>,<uint>].
IsRectangle(s) == MatchAt(s, 1) = Len(s) + 1

\* The integer a number field shows.
Shown(v) ==
  CHOOSE n \in {600, 400, 500, 300, 50, 75, 0, 7, 3, 2, -5, -3, -1, -300} :
    S(n) = v

\* A click on an element of the panel, by the operator or by a script.
PanelClick(t) == \E trusted \in BOOLEAN : Click(t, trusted, HFull)

C2_RefreshClickNeverSends ==
  [][/\ \A trusted \in BOOLEAN, h \in Hosts :
          Click("refresh", trusted, h) =>
            /\ out'.fetches = << >> /\ out'.stops = 0 /\ out'.started = 0
            /\ pending' = pending /\ stopPending' = stopPending
            /\ status' = status /\ bd' = bd
     /\ \A i \in 1..MaxOutstanding, h \in {HFull, HNoButton} :
          Tick(i, h) =>
            /\ out'.fetches = << >> /\ out'.stops = 0 /\ out'.started = 0
            /\ pending' = pending /\ stopPending' = stopPending
            /\ status' = status /\ bd' = bd
            /\ Len(runs') <= Len(runs)]_vars

\* A tick has clicked the refresh button with auto-send on and the action
\* back selected, the action that needs no rectangle to be sent.
C2_Witness == out.synth = 1 /\ auto /\ act = "back"

\* ------------------------------------------------------------------- C3
\* C3, as stated: a rectangle string is placed in a payload only if the
\* whole of it is [<uint>,<uint>][<uint>,<uint>]; every other string is
\* rejected, so no posted body carries one.
C3_OnlyWholeRectanglesPosted ==
  \A b \in Posted : "bounds" \in DOMAIN b => IsRectangle(b.bounds)

\* ------------------------------------------------------------------- C4
\* C4: a request for the action back has no bounds and no xpath field,
\* whatever the Bounds field holds and whatever the host page has selected;
\* and with back selected a qualifying click on the page, and a click on
\* Send, each post exactly one request.
C4_BackNeedsNoRectangle ==
  [][/\ \A b \in Posted' :
          b.action = "back" => DOMAIN b \cap {"bounds", "xpath"} = {}
     /\ \/ act # "back"
        \/ /\ Len(out'.fetches) = 1 /\ out'.fetches[1].action = "back"
           /\ status' = StSending
        \/ ~ \/ auto /\ \E h \in Hosts : Click("page", TRUE, h)
             \/ Click("send", TRUE, HFull)]_vars

\* A back request went out while the Bounds field held a malformed
\* rectangle.
C4_Witness ==
  bd = Broken /\ \E b \in Posted : b.action = "back"

\* ------------------------------------------------------------------- C5
\* C5, as stated: a swipe request built while the direction is up, down,
\* left or right leaves dx and dy out.
C5_DirectionOmitsDxDy ==
  \A b \in Posted :
    (b.action = "swipe" /\ b.direction \in Directions \ {"custom"})
      => "dx" \notin DOMAIN b /\ "dy" \notin DOMAIN b

\* C5, amended: every swipe request, whatever the direction, carries dx and
\* dy with the integers of the panel's fields, next to direction and
\* distance; the requests of the other actions carry none of the four.
C5_SwipeCarriesAllFour ==
  \A b \in Posted :
    IF b.action = "swipe"
      THEN /\ {"dx", "dy", "direction", "distance"} \subseteq DOMAIN b
           /\ b.dx = Shown(dx) /\ b.dy = Shown(dy)
           /\ b.direction = dir /\ b.distance = Shown(dist)
      ELSE DOMAIN b \cap {"dx", "dy", "direction", "distance"} = {}

\* A swipe request with the direction up went out with dx = 7 and dy = -3.
C5_Witness ==
  \E b \in Posted :
    b.action = "swipe" /\ b.direction = "up" /\ b.dx = 7 /\ b.dy = -3

\* ------------------------------------------------------------------- C6
\* C6, as stated: with the tap action (the panel's first option), a valid
\* rectangle R, capture mode post and wait 400, the body posted is exactly
\* {action: "tap", bounds: R, tap: true, waitAfterMs: 400}.
C6_TapPayloadExact ==
  \A b \in Posted :
    (act = "short-click" /\ capMode = "post" /\ wait = S(400)
       /\ "bounds" \in DOMAIN b /\ IsRectangle(b.bounds))
      => b = [action |-> "tap", bounds |-> b.bounds, tap |-> TRUE,
              waitAfterMs |-> 400]

ExpectedDuration ==
  LET n == Shown(dur) IN IF n = 0 THEN 600 ELSE IF n < 1 THEN 1 ELSE n

C8_CaptureTimingExclusive ==
  \A b \in Posted :
    IF capMode = "mid"
      THEN /\ {"midCapture", "midDelayMs"} \subseteq DOMAIN b
           /\ b.midCapture = TRUE /\ b.midDelayMs >= 0
           /\ "waitAfterMs" \notin DOMAIN b
      ELSE /\ "waitAfterMs" \in DOMAIN b /\ b.waitAfterMs >= 0
           /\ DOMAIN b \cap {"midCapture", "midDelayMs"} = {}

\* A back request went out in mid mode with a mid delay of 75 ms.
C8_Witness ==
  \E b \in Posted :
    b.action = "back" /\ "midDelayMs" \in DOMAIN b /\ b.midDelayMs = 75

\* ------------------------------------------------------------------- C9
\* The host page has nothing to send: no selected node whose bounds pass
\* the test of the rectangle pattern, and no candidate region with a match.
NoSelection(h) ==
  /\ ~h.node.present \/ ~BOUNDS_RE_test(NodeBounds(h.node).s)
  /\ \A i \in DOMAIN h.regions : ~BOUNDS_RE_test(h.regions[i])

\* The states of the host page with nothing to send.
NoSelectionHosts == {h \in Hosts : NoSelection(h)}

\* C9: with no selection and an action other than back, a qualifying click
\* (of the operator, on the page, auto-send on) posts nothing, does not set
\* the status to sending, starts no scheduler run and leaves the status that
\* tells to select a node; a click on Send with an empty Bounds field posts
\* nothing either and leaves the status that asks for Bounds.
C9_NoSelectionNoSend ==
  [][/\ \/ act = "back" \/ ~auto
        \/ /\ out' = Nothing /\ status' = StNotFound /\ bd' = bd
           /\ net' = net
        \/ ~ \E h \in NoSelectionHosts : Click("page", TRUE, h)
     /\ \/ act = "back" \/ bd # Empty
        \/ /\ out' = Nothing /\ status' = StFillBounds /\ bd' = bd
           /\ net' = net
        \/ ~Click("send", TRUE, HFull)]_vars

\* A click on the page with nothing selected has left the status that tells
\* to select a node, and nothing is in flight.
C9_Witness ==
  /\ status = StNotFound /\ out = Nothing /\ act # "back" /\ auto
  /\ pending = 0 /\ stopPending = 0 /\ runs = << >>

\* ------------------------------------------------------------------ C10
\* C10: the payload of the action input always has a text field, also when
\* the text field is empty (text is then the empty string), and an empty
\* text does not keep a request with a valid rectangle from going out; the
\* payloads of the other actions have no text field.
C10_InputAlwaysHasText ==
  [][/\ \A b \in Posted' :
          /\ "text" \in DOMAIN b <=> b.action = "input"
          /\ b.action = "input" => b.text = text'
     /\ \/ act # "input" \/ text # "" \/ ~IsRectangle(bd)
        \/ /\ Len(out'.fetches) = 1 /\ out'.fetches[1].action = "input"
           /\ out'.fetches[1].text = ""
        \/ ~Click("send", TRUE, HFull)]_vars

\* An input request went out with the empty string as its text.
C10_Witness ==
  \E b \in Posted : b.action = "input" /\ b.text = "" /\ "bounds" \in DOMAIN b

\* ------------------------------------------------------------------ C11
\* C11, as stated: after the capture mode m and a delay v (0 or more) were
\* set through the panel's fields and the script is loaded afresh, the
\* panel shows m and v, and the delay fields are shown as m asks: in mid
\* mode the mid delay and not the wait, in post mode the reverse.
C11_FieldsSurviveReload ==
  [][(Reload(HFull) /\ Shown(midDelay) >= 0 /\ Shown(wait) >= 0) =>
       /\ capMode' = capMode
       /\ midDelay' = midDelay /\ wait' = wait
       /\ IF capMode' = "mid"
            THEN "midDelay" \notin hidden' /\ "wait" \in hidden'
            ELSE "wait" \notin hidden' /\ "midDelay" \in hidden']_vars

\* The part of C11 that holds: the mode, the delays of 1 or more, the
\* built values for the keys the stored blob lacks (post, 50, 400), and
\* the visibility of the delay fields come back; the panel shows what is
\* stored.
C11_StoredValuesComeBack ==
  [][Reload(HFull) =>
       /\ capMode' = capMode
       /\ Shown(midDelay) >= 1 => midDelay' = midDelay
       /\ Shown(wait) >= 1 => wait' = wait
       /\ "midDelayMs" \in DOMAIN cfg => Shown(midDelay') = cfg.midDelayMs
       /\ "waitAfterMs" \in DOMAIN cfg => Shown(wait') = cfg.waitAfterMs
       /\ "capMode" \notin DOMAIN cfg => capMode' = "post"
       /\ "midDelayMs" \notin DOMAIN cfg => midDelay' = S(50)
       /\ "waitAfterMs" \notin DOMAIN cfg => wait' = S(400)
       /\ IF capMode' = "mid"
            THEN "midDelay" \notin hidden' /\ "wait" \in hidden'
            ELSE "wait" \notin hidden' /\ "midDelay" \in hidden']_vars

\* ------------------------------------------------------------------ C12
\* The three outcomes of a fetch, as the specification names them.
Outcome(r) ==
  IF r.fault THEN "NetworkError"
  ELSE IF r.httpOk /\ r.ok THEN "Success" ELSE "Failure"

\* C12: a run of the refresh scheduler starts only in the step in which a
\* Success answer (a success status and ok = true in the body) to a request
\* or to the Stop call is taken, and each such answer starts exactly one
\* run; a Failure, a NetworkError, a send that is given up on its rectangle
\* and a request that is sent or in flight start none.
C12_RunOnlyAfterSuccess ==
  [][/\ \A r \in Responses :
          (Respond(r) \/ StopRespond(r)) =>
            IF Outcome(r) = "Success"
              THEN Len(runs') = Len(runs) + 1 /\ out'.started = 1
              ELSE runs' = runs /\ out'.started = 0
     /\ Len(runs') > Len(runs) =>
          /\ Len(runs') = Len(runs) + 1
          /\ pending' + stopPending' = pending + stopPending - 1
          /\ status'[1] \in {"OK", "stopped, final screenshot"}
          /\ out'.fetches = << >> /\ out'.stops = 0
     /\ (out'.fetches # << >> \/ out'.stops > 0
           \/ status' \in {StMissingBounds, StNotFound, StFillBounds})
          => Len(runs') <= Len(runs)]_vars

\* A Success answer has just started the only run, while another request is
\* still in flight and has started none.
C12_Witness ==
  out.started = 1 /\ status[1] = "OK" /\ Len(runs) = 1 /\ pending = 1

\* ------------------------------------------------------------------ C13
\* The states of the host page with a rectangle to send.
QualifyingHosts == Hosts \ NoSelectionHosts

\* C13: in every state the program reaches, whatever is in flight and
\* whatever the status shows, the handlers of a qualifying click (of the
\* operator, on the page, auto-send on, a rectangle to send or the action
\* back) post exactly one request and show sending: nothing holds a click
\* back while an earlier request is unanswered.
C13_EveryQualifyingClickPosts ==
  auto =>
    \A h \in (IF act = "back" THEN Hosts ELSE QualifyingHosts) :
      \E m \in {dispatchClick(Mutable, "page", TRUE, h)} :
        /\ Len(m.fetches) = 1 /\ m.stops = 0
        /\ m.status = StSending

\* A click has posted a request while the request of an earlier click was
\* still in flight: two are in flight at once.
C13_Witness ==
  pending = 2 /\ Len(out.fetches) = 1 /\ status = StSending /\ auto

\* ------------------------------------------------------------------ C14
\* C14: the answer to a request is taken once and nothing is posted again;
\* Success shows OK with the element, Failure (a status that is no success,
\* or a body without ok = true) shows the error text of the body or else
\* the status code, NetworkError shows the fault.  The answer to the Stop
\* call is classified in the same way, by itself.
C14_ThreeOutcomes ==
  [][\A r \in Responses :
       /\ Respond(r) =>
            /\ out'.fetches = << >> /\ out'.stops = 0
            /\ pending' = pending - 1 /\ stopPending' = stopPending
            /\ status' =
                 CASE Outcome(r) = "Success" -> StOK(r.id)
                   [] Outcome(r) = "Failure" ->
                        StFailed(IF r.error # "" THEN r.error ELSE r.code)
                   [] Outcome(r) = "NetworkError" ->
                        StException("TypeError: Failed to fetch")
       /\ StopRespond(r) =>
            /\ out'.fetches = << >> /\ out'.stops = 0
            /\ stopPending' = stopPending - 1 /\ pending' = pending
            /\ status' =
                 CASE Outcome(r) = "Success" -> StStopped(r.id)
                   [] Outcome(r) = "Failure" ->
                        StStopFailed(IF r.error # "" THEN r.error
                                     ELSE r.code)
                   [] Outcome(r) = "NetworkError" ->
                        StStopException("TypeError: Failed to fetch")]_vars

\* A request was answered with a success status and a body that carries an
\* error text and no ok = true: the status shows that text, and nothing is
\* in flight.
C14_Witness ==
  /\ status = StFailed("xpath not found")
  /\ out = Nothing /\ pending = 0 /\ stopPending = 0

\* ------------------------------------------------------------------ C17
\* C17: while auto-send is off no click on the host page, of the operator
\* or of a script, posts a request; switching auto-send off (by the box or
\* by Stop) takes no request out of flight, and the answer to a request
\* that comes while auto-send is off is handled as ever: the request leaves
\* flight, its outcome is written to the status line, and a Success starts
\* one run.
C17_AutoOffStopsNewSendsOnly ==
  [][/\ \/ auto
        \/ out'.fetches = << >>
        \/ \A h \in Hosts, trusted \in BOOLEAN : ~Click("page", trusted, h)
     /\ (auto /\ ~auto') =>
          pending' = pending /\ out'.fetches = << >> /\ runs' = runs
     /\ \/ auto
        \/ \A r \in Responses :
             Respond(r) =>
               /\ pending' = pending - 1 /\ ~auto'
               /\ status'[1] = (CASE Outcome(r) = "Success" -> "OK"
                                  [] Outcome(r) = "Failure" -> "failed"
                                  [] OTHER -> "exception")
               /\ Len(runs') =
                    Len(runs) + (IF Outcome(r) = "Success" THEN 1 ELSE 0)]_vars

\* Stop has switched auto-send off and its own call is unanswered; a request
\* to the endpoint was answered with a Success after that, the status shows
\* OK and a run was started.
C17_Witness ==
  ~auto /\ out.started = 1 /\ status[1] = "OK" /\ stopPending = 1

\* ------------------------------------------------------------------ C18
\* C18, as stated: a click that is not operator-trusted never results in a
\* network send, wherever its target is.
C18_SyntheticClickNeverSends ==
  [][\/ out'.fetches = << >>
     \/ \A t \in Targets : ~Click(t, FALSE, HFull)]_vars

\* C18, amended: in every state the program reaches, a synthetic click whose
\* target is outside the panel (on the page, on the refresh button, in an
\* ignore region) posts nothing, extracts no selection and changes nothing
\* of the panel; a synthetic click on an element of the panel is ignored by
\* the listener as well, and the element's own handler then does what it
\* does for a click of the operator: the Send button posts.
C18_SyntheticClickOutsidePanelNeverSends ==
  /\ \A t \in Targets \ PanelTargets, h \in Hosts :
       dispatchClick(Mutable, t, FALSE, h) = Mutable
  /\ \A t \in PanelTargets, h \in Hosts :
       /\ clickListener(Mutable, t, FALSE, h) = Mutable
       /\ dispatchClick(Mutable, t, FALSE, h) =
            dispatchClick(Mutable, t, TRUE, h)

\* A click on the Send button, which a script of the host page makes as well
\* as the operator does, has posted a request while auto-send is off and
\* another request is in flight.
C18_Witness ==
  ~auto /\ Len(out.fetches) = 1 /\ pending = 2 /\ status = StSending

\* ------------------------------------------------------------------ C19
\* The status lines of a send that was given up or that failed.
FailureShown ==
  status \in {StMissingBounds, StNotFound, StFillBounds}
    \/ status[1] \in {"failed", "exception", "stop failed", "stop exception"}

\* C19: no failure is terminal.  The status shows sending only while a
\* request is in flight; in a state whose status shows a send given up for
\* its rectangle, a Failure or a NetworkError, the handlers of a qualifying
\* click post one request; and, every fetch settling in the end, a request
\* in flight leads to an outcome message (OK, failed or exception) on the
\* status line.
C19_NoFailureIsTerminal ==
  /\ [](status = StSending => pending > 0)
  /\ []((FailureShown /\ auto) =>
          \A h \in (IF act = "back" THEN Hosts ELSE QualifyingHosts) :
            LET m == dispatchClick(Mutable, "page", TRUE, h)
            IN  Len(m.fetches) = 1 /\ m.status = StSending)
  /\ (pending > 0) ~> (status[1] \in {"OK", "failed", "exception"})

\* A fetch has rejected: the status shows the exception, nothing is in
\* flight, auto-send is still on.
C19_Witness ==
  /\ status = StException("TypeError: Failed to fetch")
  /\ pending = 0 /\ stopPending = 0 /\ auto /\ out.started = 0

\* ------------------------------------------------------------------ C15
\* C15: a run clicks the refresh button at most times times: a tick that
\* clicks is at most the times-th tick of its run, so a run with times = 0
\* clicks never.
C15_AtMostTimesClicks ==
  [][\/ out'.synth = 0
     \/ \A i \in 1..MaxOutstanding, h \in {HFull, HNoButton} :
          ~Tick(i, h) \/ runs[i].count + 1 <= runs[i].times]_vars

\* ------------------------------------------------------------------ C16
\* C16: a run with times >= 1 is started with no tick done and without a
\* click in the step that schedules it; each of its ticks adds one to its
\* count, whether the refresh button is found (one click) or not (no click,
\* nothing on the status line, nothing posted); the run stays while its
\* count is below times and ends with the tick that makes the count reach
\* times, so it ends after exactly times ticks and never earlier.
C16_ExactlyTimesTicks ==
  /\ [](\A i \in 1..Len(runs) :
          runs[i].times >= 1 =>
            runs[i].count >= 0 /\ runs[i].count < runs[i].times)
  /\ [][Len(runs') > Len(runs) =>
          /\ out'.synth = 0
          /\ Len(runs') = Len(runs) + 1
          /\ runs'[Len(runs')].count = 0]_vars
  /\ [][\A i \in 1..MaxOutstanding, h \in {HFull, HNoButton} :
          \/ ~Tick(i, h)
          \/ runs[i].times < 1
          \/ /\ out'.synth = (IF h.refreshBtn THEN 1 ELSE 0)
             /\ out'.fetches = << >> /\ out'.started = 0
             /\ status' = status
             /\ runs' = IF runs[i].count + 1 = runs[i].times
                          THEN RemoveAt(runs, i)
                          ELSE [runs EXCEPT ![i].count = runs[i].count + 1]]_vars

\* The only run was started with times = 3 and has done two of its ticks,
\* the second with a click; it is still there for its third.
C16_Witness ==
  /\ Len(runs) = 1 /\ runs[1].times = 3 /\ runs[1].count = 2
  /\ out.synth = 1

\* ------------------------------------------------------------------ C20
\* The ticks that the runs in rs have still to do.
RECURSIVE TicksLeft(_)
TicksLeft(rs) ==
  IF rs = << >> THEN 0
  ELSE (Head(rs).times - Head(rs).count) + TicksLeft(Tail(rs))

\* The runs in rs other than the i-th.
Others(rs, i) == SubSeq(rs, 1, i - 1) \o SubSeq(rs, i + 1, Len(rs))

\* C20: overlapping runs are independent.  A run is started with a count of
\* its own and with the times and interval that are applied at that moment;
\* a tick of one run leaves every other run and the applied parameters as
\* they are, in whatever order the timers fire; applying new parameters
\* changes no run that exists.  With every run started with times >= 1, the
\* ticks still to come go up by times when a run starts and down by exactly
\* one with each tick: k runs of t ticks make k*t ticks.
C20_RunsAreIndependent ==
  [][/\ Len(runs') > Len(runs) =>
          /\ runs' = Append(runs, [count |-> 0, times |-> REFRESH_TIMES,
                                   delay |-> REFRESH_INTERVAL])
          /\ TicksLeft(runs') = TicksLeft(runs) + REFRESH_TIMES
     /\ (REFRESH_TIMES' # REFRESH_TIMES
           \/ REFRESH_INTERVAL' # REFRESH_INTERVAL) => runs' = runs
     /\ \A i \in 1..MaxOutstanding, h \in {HFull, HNoButton} :
          \/ ~Tick(i, h)
          \/ /\ REFRESH_TIMES' = REFRESH_TIMES
             /\ REFRESH_INTERVAL' = REFRESH_INTERVAL
             /\ \/ runs' = Others(runs, i)
                \/ /\ Len(runs') = Len(runs)
                   /\ Others(runs', i) = Others(runs, i)
                   /\ runs'[i].times = runs[i].times
                   /\ runs'[i].delay = runs[i].delay
             /\ (\A j \in 1..Len(runs) : runs[j].times >= 1) =>
                  TicksLeft(runs') = TicksLeft(runs) - 1]_vars

\* Two runs at once, started under different applied parameters: the older
\* with times = 3 and interval 500 has done two ticks, the younger with
\* times = 2 and interval 300 has done one.
C20_Witness ==
  /\ Len(runs) = 2
  /\ runs[1] = [count |-> 2, times |-> 3, delay |-> 500]
  /\ runs[2] = [count |-> 1, times |-> 2, delay |-> 300]

\* ------------------------------------------------------------------ C21
\* C21: after the script has run and after every change of the action and
\* of the capture mode, the text field is shown exactly for input; dx, dy,
\* direction and distance exactly for swipe; the duration exactly for
\* long-click and swipe; the Bounds field is disabled exactly for back; the
\* mid-delay field is shown exactly in mid mode and the wait-after field
\* exactly in post mode.
C21_VisibilityFollowsSelections ==
  /\ ("text" \notin hidden) <=> (act = "input")
  /\ \A f \in {"dx", "dy", "dir", "dist"} :
       (f \notin hidden) <=> (act = "swipe")
  /\ ("dur" \notin hidden) <=> (act \in {"long-click", "swipe"})
  /\ ("bd" \in disabled) <=> (act = "back")
  /\ ("midDelay" \notin hidden) <=> (capMode = "mid")
  /\ ("wait" \notin hidden) <=> (capMode = "post")

\* The action was changed to swipe and on to back, the capture mode to mid:
\* only the mid-delay field is shown, and the Bounds field is disabled.
C21_Witness ==
  /\ act = "back" /\ capMode = "mid"
  /\ hidden = {"text", "dx", "dy", "dir", "dist", "dur", "wait"}
  /\ "bd" \in disabled

\* ------------------------------------------------------------------ C22
\* C22: every swipe payload that is posted has a distance of 0 or more,
\* whatever integer the distance field holds.
C22_DistanceNonNegative ==
  \A b \in Posted : "distance" \in DOMAIN b => b.distance >= 0

\* ------------------------------------------------------------------ C23
\* C23: with an integer v >= 0 in the delay field of the selected capture
\* mode, 0 included, the payload posted carries v as its delay, and the
\* value stored by the change of that field is v; a negative entry is never
\* posted as a negative delay.
C23_DelayIsWhatWasEntered ==
  /\ \A b \in Posted :
       /\ (capMode = "mid" /\ Shown(midDelay) >= 0) =>
            b.midDelayMs = Shown(midDelay)
       /\ (capMode = "post" /\ Shown(wait) >= 0) =>
            b.waitAfterMs = Shown(wait)
       /\ "midDelayMs" \in DOMAIN b => b.midDelayMs >= 0
       /\ "waitAfterMs" \in DOMAIN b => b.waitAfterMs >= 0
  /\ ("midDelayMs" \in DOMAIN cfg /\ Shown(midDelay) >= 0) =>
       cfg.midDelayMs = Shown(midDelay)
  /\ ("waitAfterMs" \in DOMAIN cfg /\ Shown(wait) >= 0) =>
       cfg.waitAfterMs = Shown(wait)

\* ------------------------------------------------------------------ C24
\* C24: the step in which Stop issues its call to final_screenshot leaves
\* auto-send off and touches no request in flight; the answer to that call,
\* whatever it is, leaves auto-send as it is; auto-send comes back on only
\* by a click on its box; while it is off, a click on the page, in every
\* state of the page, posts nothing and changes nothing; and a request that
\* was in flight is still taken out of flight by its answer, which starts a
\* run when it is a Success.
C24_StopTurnsAutoOff ==
  /\ [](~auto =>
          \A h \in Hosts, trusted \in BOOLEAN :
            dispatchClick(Mutable, "page", trusted, h) = Mutable)
  /\ [][/\ out'.stops > 0 =>
             /\ out'.stops = 1 /\ ~auto'
             /\ stopPending' = stopPending + 1
             /\ pending' = pending /\ runs' = runs
        /\ \A r \in Responses : StopRespond(r) => auto' = auto
        /\ (~auto /\ auto') =>
             \E trusted \in BOOLEAN : Click("auto", trusted, HFull)
        /\ \/ auto
           \/ \A r \in Responses :
                Respond(r) =>
                  /\ pending' = pending - 1 /\ ~auto'
                  /\ out'.started = (IF Outcome(r) = "Success" THEN 1 ELSE 0)
                  /\ runs' = (IF Outcome(r) = "Success"
                                THEN Append(runs, NewRun) ELSE runs)]_vars

\* The call of Stop was answered with a Failure: the status shows it,
\* auto-send is still off, and a request sent before Stop is still in
\* flight.
C24_Witness ==
  ~auto /\ status = StStopFailed("xpath not found") /\ pending = 1
====
